---- MODULE Spec2Model ----
(***************************************************************************)
(* Model of src/utils/getTrustedCertificates.ts: the certificate           *)
(* aggregator of the Docker extension.                                     *)
(*                                                                         *)
(* A string is modelled as the sequence of its tokens (path segments, or   *)
(* one token for an opaque certificate blob), so the empty string is <<>>. *)
(* A JavaScript array is an object with identity: it lives in `heap` and   *)
(* is referred to by its index there, so two names for one array see each  *)
(* other's push.                                                           *)
(***************************************************************************)
EXTENDS Integers, Sequences, FiniteSets, TLC

\* ------------------------------------------------------------------ bounds
\* Calls of getTrustedCertificates made in one behaviour.
MaxCalls == 3
\* Longest configured path list the configuration source supplies.
MaxPaths == 2

\* ------------------------------------------------------------------ values
\* The three host families told apart by isWindows / isMac / isLinux.
Platforms == {"win", "mac", "linux"}

\* A value of https.globalAgent.options.ca: absent (undefined), a single
\* entry (a string), or a reference to an array of entries.
Absent == [kind |-> "absent", v |-> <<>>, id |-> 0]
Single(e) == [kind |-> "single", v |-> e, id |-> 0]
ArrayRef(i) == [kind |-> "array", v |-> <<>>, id |-> i]

\* Certificate blobs: one already installed by another component, two held
\* by the operating system's trust store.
C0 == <<"c0">>
Os1 == <<"os1">>
Os2 == <<"os2">>

\* Candidate paths.  The first token of an absolute POSIX path is "/".
PRel == <<"rel", "x">>
PA == <<"/", "a">>
PD == <<"/", "d">>
PDrive == <<"C:\\", "a">>
PDriveRel == <<"C:", "a">>
PDF1 == <<"/", "d", "f1">>
PDS == <<"/", "d", "s">>
PDSF2 == <<"/", "d", "s", "f2">>

\* The default list of line 28.
LinuxDefaultPaths ==
    << <<"/", "etc", "ssl", "certs", "ca-certificates">>,
       <<"/", "etc", "openssl", "certs">>,
       <<"/", "etc", "pki", "tls", "certs">>,
       <<"/", "usr", "local", "share", "certs">> >>

PEtcPem == <<"/", "etc", "openssl", "certs", "ca.pem">>

\* The value of the 'docker.certificates' setting: undefined or a list.
Undefined == [defined |-> FALSE, list |-> <<>>]
Configured(l) == [defined |-> TRUE, list |-> l]

\* ------------------------------------------------------------ sequences
RECURSIVE SeqsUpTo(_, _)
SeqsUpTo(S, n) ==
    IF n = 0 THEN {<<>>}
    ELSE LET shorter == SeqsUpTo(S, n - 1)
         IN shorter \cup {Append(s, x) : s \in {t \in shorter : Len(t) = n - 1}, x \in S}

IsPrefix(p, q) == Len(p) <= Len(q) /\ SubSeq(q, 1, Len(p)) = p

\* ------------------------------------------------------------ filesystem
\* A filesystem state is the sequence of its nodes in the order the
\* filesystem enumerates them.  Kinds: a regular file, a directory, a
\* directory that cannot be listed, a node the process may not access,
\* and anything else (socket, device).
Node(p, k) == [path |-> p, kind |-> k]

FsTree ==
    << Node(PA, "file"), Node(PD, "dir"), Node(PDF1, "file"),
       Node(PDS, "dir"), Node(PDSF2, "file") >>
FsTreeReordered ==
    << Node(PD, "dir"), Node(PDS, "dir"), Node(PDSF2, "file"),
       Node(PDF1, "file") >>
FsLocked ==
    << Node(PA, "file"), Node(PD, "lockeddir"), Node(PDF1, "file") >>
FsOdd ==
    << Node(PA, "other"), Node(PD, "file"),
       Node(LinuxDefaultPaths[2], "dir"), Node(PEtcPem, "file") >>
FsDenied ==
    << Node(PA, "noaccess"), Node(PD, "dir"), Node(PDF1, "file") >>
FsEmpty == << >>

FsStates == {FsTree, FsTreeReordered, FsLocked, FsOdd, FsDenied, FsEmpty}

\* ------------------------------------------------- platform and libraries
isWindows(plat) == plat = "win"
isMac(plat) == plat = "mac"
isLinux(plat) == plat = "linux"

\* Variant of IsAbsolute: any non-empty path passes.
IsAbsoluteLoose(p, plat) == Len(p) > 0

\* path.isAbsolute (line 48).  Node binds `path` to the host's flavour: on
\* a POSIX host a path is absolute when it starts with "/"; on Windows
\* also when it starts with "\" or with a drive root such as "C:\" (a bare
\* drive prefix "C:" is drive-relative).
IsAbsolute(p, plat) ==
    /\ Len(p) > 0
    /\ IF isWindows(plat) THEN p[1] \in {"/", "\\", "C:\\"} ELSE p[1] = "/"

FsKind(f, p) ==
    IF \E i \in 1..Len(f) : f[i].path = p
    THEN f[CHOOSE i \in 1..Len(f) : f[i].path = p].kind
    ELSE "missing"

\* fse.pathExists (line 55): true when the path can be accessed; a failed
\* access check answers false, it never rejects.
PathExists(f, p) == FsKind(f, p) \notin {"missing", "noaccess"}

\* fse.stat (lines 56-58): rejects for a path that is not there or may not
\* be accessed, else tells a directory from a regular file.
Stat(f, p) ==
    LET k == FsKind(f, p)
    IN [threw |-> k \in {"missing", "noaccess"},
        isDirectory |-> k \in {"dir", "lockeddir"},
        isFile |-> k = "file"]

\* globAsync('**', {absolute, nodir, cwd}) (line 65): every regular file
\* nested under cwd, no directory, in the filesystem's enumeration order;
\* it rejects when cwd cannot be listed.
GlobAsync(f, cwd) ==
    LET nested(n) == /\ n.kind = "file"
                     /\ Len(n.path) > Len(cwd)
                     /\ IsPrefix(cwd, n.path)
        hits == SelectSeq(f, nested)
    IN [threw |-> FsKind(f, cwd) = "lockeddir",
        files |-> [i \in 1..Len(hits) |-> hits[i].path]]

\* ----------------------------------------------- system trust-store reader
\* What require('win-ca') / require('mac-ca') does on one run (lines 88,
\* 90): it places what it read from the OS into https.globalAgent.options.ca
\* (a single entry, or a new array), or leaves the option alone, and it may
\* raise an error on the way.
Outcome(t, how, items) == [throws |-> t, installs |-> how, items |-> items]

ReaderOutcomes ==
    { Outcome(FALSE, "none", <<>>),
      Outcome(FALSE, "array", <<>>),
      Outcome(FALSE, "array", <<Os1, Os2>>),
      Outcome(FALSE, "single", <<Os1>>),
      Outcome(FALSE, "single", << <<>> >>),
      Outcome(TRUE, "none", <<>>),
      Outcome(TRUE, "array", <<Os1>>) }

\* Lines 87-92: a reader exists for Windows and for Mac only.
ReaderRuns(plat) == isWindows(plat) \/ isMac(plat)

\* The option after the try block of lines 86-92; newId is the identity of
\* the array the reader allocates.
AfterReader(plat, prev, out, newId) ==
    IF ~ReaderRuns(plat) \/ out.installs = "none" THEN prev
    ELSE IF out.installs = "single" THEN Single(out.items[1])
    ELSE ArrayRef(newId)

\* Variant of Restore: the option keeps what the reader put there.
RestoreKeep(previous, current) == current

\* Line 95: the option is set back to the value saved at line 83.
Restore(previous, current) == previous

\* Line 79: `!_systemCertificates`; 0 stands for undefined, and every array,
\* the empty one too, is truthy.
NoCache == 0

\* Variant of CacheMiss: an empty cached array counts as no cache.
CacheMissOnEmpty(cache, h) == cache = NoCache \/ h[cache] = <<>>

CacheMiss(cache, h) == cache = NoCache

\* Line 98: `!certificates`: undefined and the empty string are falsy.
\* Variant of Falsy: only the absent value counts as nothing.
FalsyAbsentOnly(val) == val.kind = "absent"

Falsy(val) == val.kind = "absent" \/ (val.kind = "single" /\ val.v = <<>>)

\* Lines 98-102: the value read back becomes an array; [heap, id] is the
\* heap after it and the array's identity.
Normalize(val, h) ==
    IF Falsy(val) THEN [heap |-> Append(h, <<>>), id |-> Len(h) + 1]
    ELSE IF val.kind # "array" THEN [heap |-> Append(h, <<val.v>>), id |-> Len(h) + 1]
    ELSE [heap |-> h, id |-> val.id]

\* The content of an option value: an array is shown by its entries.
Content(val, h) ==
    [kind |-> val.kind, v |-> val.v, id |-> val.id,
     items |-> IF val.kind = "array" THEN h[val.id] ELSE <<>>]

\* getCertificatesFromSystem (lines 78-108) as a function of the state it
\* reads and of the reader's outcome: the state it leaves, the array it
\* returns (ret; none when threw), whether the reader was invoked, how often
\* the option was read and written, and what was read back at line 94.  An array the reader allocated
\* is kept on the heap only when something still refers to it.
GetCertificatesFromSystem(plat, cache, caVal, h, out) ==
    IF ~CacheMiss(cache, h)
    THEN [threw |-> FALSE, cache |-> cache, ca |-> caVal, heap |-> h, ret |-> cache,
          invoked |-> FALSE, reads |-> 0, writes |-> 0, readBack |-> Content(caVal, h)]
    ELSE
      LET previousCertificateAuthorities == caVal
          runs == ReaderRuns(plat)
          allocates == runs /\ out.installs = "array"
          h1 == IF allocates THEN Append(h, out.items) ELSE h
          certificates == AfterReader(plat, previousCertificateAuthorities, out, Len(h1))
          restored == Restore(previousCertificateAuthorities, certificates)
          keepAlloc == allocates /\ (restored = certificates \/ ~out.throws)
          norm == Normalize(certificates, h1)
      IN IF runs /\ out.throws
         THEN [threw |-> TRUE, cache |-> cache, ca |-> restored,
               heap |-> IF keepAlloc THEN h1 ELSE h, ret |-> NoCache,
               invoked |-> TRUE, reads |-> 2, writes |-> 1,
               readBack |-> Content(certificates, h1)]
         ELSE [threw |-> FALSE, cache |-> norm.id, ca |-> restored,
               heap |-> norm.heap, ret |-> norm.id,
               invoked |-> runs, reads |-> 2, writes |-> 1,
               readBack |-> Content(certificates, h1)]

\* ------------------------------------------------ getTrustedCertificates
\* Variant of ResolvePaths: an empty configured list counts as no setting.
ResolvePathsEmptyAsAbsent(cfg, plat) ==
    IF ~cfg.defined \/ cfg.list = <<>>
    THEN IF isLinux(plat) THEN LinuxDefaultPaths ELSE <<>>
    ELSE cfg.list

\* Lines 24-32: the configured list, or the platform's default when the
\* setting is undefined.
ResolvePaths(cfg, plat) ==
    IF ~cfg.defined
    THEN IF isLinux(plat) THEN LinuxDefaultPaths ELSE <<>>
    ELSE cfg.list

\* String(n) (lines 35-36) for a length: the decimal numeral, one token
\* per digit.
Digits == <<"0", "1", "2", "3", "4", "5", "6", "7", "8", "9">>

RECURSIVE String(_)
String(n) ==
    IF n < 10 THEN <<Digits[n + 1]>>
    ELSE Append(String(n \div 10), Digits[(n % 10) + 1])

\* Array.prototype.push(...items) (lines 39, 66): the items are appended
\* to the array itself.
Push(arr, items) == arr \o items

\* Variant of NewCerts: the array of the previous call is used again.
NewCertsKept(prev) == prev

\* Line 46: every call of getCertificatesFromPaths starts from a new empty
\* array; prev is what the previous call left in the same local.
NewCerts(prev) == <<>>

\* Lines 47-51: from candidate i on, every candidate that is not absolute
\* raises a warning naming it and is passed over, without a suspension, up
\* to the next absolute candidate (i is then its position) or to the end
\* of the list (i is then Len(paths) + 1).
RECURSIVE NextAbsolute(_, _, _)
NextAbsolute(paths, i, plat) ==
    IF i > Len(paths) THEN [i |-> i, warned |-> <<>>]
    ELSE IF IsAbsolute(paths[i], plat) THEN [i |-> i, warned |-> <<>>]
    ELSE LET rest == NextAbsolute(paths, i + 1, plat)
         IN [i |-> rest.i, warned |-> <<paths[i]>> \o rest.warned]

\* Variant of Contribution: whatever is no folder is pushed.
ContributionElseSelf(isFolder, isFile, exists) ==
    IF isFolder THEN "glob" ELSE "self"

\* Variant of Contribution: whatever exists and is no folder is pushed.
ContributionExisting(isFolder, isFile, exists) ==
    IF isFolder THEN "glob" ELSE IF exists THEN "self" ELSE "nothing"

\* Lines 64-71: what a candidate contributes once its flags are known.
Contribution(isFolder, isFile, exists) ==
    IF isFolder THEN "glob" ELSE IF isFile THEN "self" ELSE "nothing"

\* ------------------------------------------------------------------ state
Calls == {1, 2}

VARIABLES
    platform,            \* the host family (fixed)
    ca,                  \* https.globalAgent.options.ca
    heap,                \* the arrays, by identity
    _systemCertificates, \* line 15: identity of the cached array, or NoCache
    fs,                  \* the filesystem
    frame,               \* per call: position and locals of getTrustedCertificates
    seen,                \* per call: what was observed of it (warnings, fs operations, ...)
    lastSys,             \* the last run of getCertificatesFromSystem, before and after
    counters,            \* reader invocations, reads and writes of the option, calls
    sysFirst,            \* what the first completed getCertificatesFromSystem returned
    caInitial,           \* the option's content before the first call
    history              \* the completed calls, in order: inputs and result

vars == <<platform, ca, heap, _systemCertificates, fs, frame, seen, lastSys,
          counters, sysFirst, caInitial, history>>

None == [none |-> TRUE]
Some(x) == [none |-> FALSE, val |-> x]

IdleFrame ==
    [pc |-> "idle", certificatePaths |-> <<>>, i |-> 1, certs |-> <<>>,
     systemCerts |-> NoCache, result |-> NoCache,
     fromSystemCount |-> <<>>, fromPathsCount |-> <<>>]

FreshSeen ==
    [configured |-> Undefined, sysAtCall |-> <<>>, returned |-> <<>>,
     fsAtCall |-> <<>>, fsStable |-> TRUE, ops |-> <<>>, warnings |-> <<>>,
     notes |-> <<>>, readerThrew |-> FALSE, cacheHit |-> FALSE]

InitialOptions ==
    { [ca |-> Absent, heap |-> <<>>],
      [ca |-> Single(C0), heap |-> <<>>],
      [ca |-> ArrayRef(1), heap |-> << <<C0>> >>] }

Init ==
    /\ platform \in Platforms
    /\ \E o \in InitialOptions :
          /\ ca = o.ca
          /\ heap = o.heap
          /\ caInitial = Content(o.ca, o.heap)
    /\ _systemCertificates = NoCache
    /\ fs \in FsStates
    /\ frame = [c \in Calls |-> IdleFrame]
    /\ seen = [c \in Calls |-> FreshSeen]
    /\ lastSys = None
    /\ counters = [reader |-> 0, throws |-> 0, okReads |-> 0, caReads |-> 0, caWrites |-> 0, calls |-> 0]
    /\ sysFirst = None
    /\ history = <<>>

\* ---------------------------------------------------------------- actions
\* Where getCertificatesFromPaths stands after the candidates before j are
\* dealt with: suspended on pathExists of candidate j, or finished, with
\* its caller suspended on the returned promise (line 33).
LoopAt(f, adv) ==
    [f EXCEPT !.i = adv.i,
              !.pc = IF adv.i > Len(f.certificatePaths) THEN "return" ELSE "pathExists"]

Warn(o, adv) == [o EXCEPT !.warnings = @ \o adv.warned]

\* Lines 19-33 up to the first suspension: the system extraction, the
\* configuration read with its default, and the entry into
\* getCertificatesFromPaths.  An error out of the extraction leaves the
\* callback at once; callWithTelemetryAndErrorHandling reports it and the
\* call yields no certificates.
Begin(c, cfg, out) ==
    /\ frame[c].pc \in {"idle", "done", "failed"}
    /\ LET r == GetCertificatesFromSystem(platform, _systemCertificates, ca, heap, out)
           miss == CacheMiss(_systemCertificates, heap)
           paths == ResolvePaths(cfg, platform)
           adv == NextAbsolute(paths, 1, platform)
           f0 == [IdleFrame EXCEPT !.certificatePaths = paths,
                                   !.certs = NewCerts(frame[c].certs),
                                   !.systemCerts = r.ret]
           o0 == [FreshSeen EXCEPT !.configured = cfg,
                                   !.fsAtCall = fs,
                                   !.readerThrew = r.threw,
                                   !.cacheHit = ~miss,
                                   !.sysAtCall = IF r.threw THEN <<>> ELSE r.heap[r.ret]]
       IN /\ ca' = r.ca
          /\ heap' = r.heap
          /\ _systemCertificates' = r.cache
          /\ lastSys' = Some([before |-> Content(ca, heap),
                              after |-> Content(r.ca, r.heap),
                              readBack |-> r.readBack,
                              threw |-> r.threw, invoked |-> r.invoked, miss |-> miss,
                              ret |-> IF r.threw THEN <<>> ELSE r.heap[r.ret]])
          /\ counters' = [counters EXCEPT !.calls = @ + 1,
                                          !.reader = @ + (IF r.invoked THEN 1 ELSE 0),
                                          !.throws = @ + (IF r.threw THEN 1 ELSE 0),
                                          !.okReads = @ + (IF miss /\ ~r.threw THEN 1 ELSE 0),
                                          !.caReads = @ + r.reads,
                                          !.caWrites = @ + r.writes]
          /\ sysFirst' = IF sysFirst.none /\ ~r.threw THEN Some(r.heap[r.ret]) ELSE sysFirst
          /\ IF r.threw
             THEN /\ frame' = [frame EXCEPT ![c] = [f0 EXCEPT !.pc = "failed"]]
                  /\ seen' = [seen EXCEPT ![c] = o0]
             ELSE /\ frame' = [frame EXCEPT ![c] = LoopAt(f0, adv)]
                  /\ seen' = [seen EXCEPT ![c] = Warn(o0, adv)]
    /\ UNCHANGED <<platform, fs, caInitial, history>>

\* Line 55: pathExists answers.  A path that is not there leaves both flags
\* false: the note of line 70, then the next candidate.
PathExistsStep(c) ==
    /\ frame[c].pc = "pathExists"
    /\ LET f == frame[c]
           certPath == f.certificatePaths[f.i]
           o1 == [seen[c] EXCEPT !.ops = Append(@, <<"pathExists", certPath>>)]
           adv == NextAbsolute(f.certificatePaths, f.i + 1, platform)
       IN IF PathExists(fs, certPath)
          THEN /\ frame' = [frame EXCEPT ![c].pc = "stat"]
               /\ seen' = [seen EXCEPT ![c] = o1]
          ELSE /\ frame' = [frame EXCEPT ![c] = LoopAt(f, adv)]
               /\ seen' = [seen EXCEPT ![c] = Warn([o1 EXCEPT !.notes = Append(@, certPath)], adv)]
    /\ UNCHANGED <<platform, ca, heap, _systemCertificates, fs, lastSys, counters,
                   sysFirst, caInitial, history>>

\* Lines 56-71: stat answers (an error is caught at line 60 and leaves both
\* flags false).  A folder goes on to the enumeration, a file is pushed,
\* anything else is noted.
StatStep(c) ==
    /\ frame[c].pc = "stat"
    /\ LET f == frame[c]
           certPath == f.certificatePaths[f.i]
           st == Stat(fs, certPath)
           isFolder == ~st.threw /\ st.isDirectory
           isFile == ~st.threw /\ st.isFile
           what == Contribution(isFolder, isFile, ~st.threw)
           o1 == [seen[c] EXCEPT !.ops = Append(@, <<"stat", certPath>>)]
           adv == NextAbsolute(f.certificatePaths, f.i + 1, platform)
       IN CASE what = "glob" ->
                 /\ frame' = [frame EXCEPT ![c].pc = "glob"]
                 /\ seen' = [seen EXCEPT ![c] = o1]
            [] what = "self" ->
                 /\ frame' = [frame EXCEPT ![c] = LoopAt([f EXCEPT !.certs = Push(@, <<certPath>>)], adv)]
                 /\ seen' = [seen EXCEPT ![c] = Warn(o1, adv)]
            [] OTHER ->
                 /\ frame' = [frame EXCEPT ![c] = LoopAt(f, adv)]
                 /\ seen' = [seen EXCEPT ![c] = Warn([o1 EXCEPT !.notes = Append(@, certPath)], adv)]
    /\ UNCHANGED <<platform, ca, heap, _systemCertificates, fs, lastSys, counters,
                   sysFirst, caInitial, history>>

\* Lines 65-66: the enumeration answers and its files are pushed; its
\* rejection is caught nowhere and ends the call with no certificates.
GlobStep(c) ==
    /\ frame[c].pc = "glob"
    /\ LET f == frame[c]
           certPath == f.certificatePaths[f.i]
           g == GlobAsync(fs, certPath)
           o1 == [seen[c] EXCEPT !.ops = Append(@, <<"glob", certPath>>)]
           adv == NextAbsolute(f.certificatePaths, f.i + 1, platform)
       IN IF g.threw
          THEN /\ frame' = [frame EXCEPT ![c].pc = "failed"]
               /\ seen' = [seen EXCEPT ![c] = o1]
          ELSE /\ frame' = [frame EXCEPT ![c] = LoopAt([f EXCEPT !.certs = Push(@, g.files)], adv)]
               /\ seen' = [seen EXCEPT ![c] = Warn(o1, adv)]
    /\ UNCHANGED <<platform, ca, heap, _systemCertificates, fs, lastSys, counters,
                   sysFirst, caInitial, history>>

\* Lines 33-41: folderCerts arrives, the two counts are reported, and the
\* path certificates are pushed onto the array systemCerts names, which is
\* returned.
Finish(c) ==
    /\ frame[c].pc = "return"
    /\ LET f == frame[c]
           folderCerts == f.certs
           certificates == f.systemCerts
           pushed == Push(heap[certificates], folderCerts)
       IN /\ heap' = [heap EXCEPT ![certificates] = pushed]
          /\ frame' = [frame EXCEPT ![c].pc = "done",
                                    ![c].result = certificates,
                                    ![c].fromSystemCount = String(Len(heap[f.systemCerts])),
                                    ![c].fromPathsCount = String(Len(folderCerts))]
          /\ seen' = [seen EXCEPT ![c].returned = pushed]
          /\ history' = IF seen[c].fsStable
                        THEN Append(history, [sys |-> seen[c].sysAtCall,
                                              paths |-> seen[c].configured,
                                              fs |-> fs,
                                              returned |-> pushed])
                        ELSE history
    /\ UNCHANGED <<platform, ca, _systemCertificates, fs, lastSys, counters,
                   sysFirst, caInitial>>

\* The filesystem changes under the program, also while a call is suspended.
ChangeFilesystem(f) ==
    /\ f # fs
    /\ fs' = f
    /\ seen' = [c \in Calls |->
                  IF frame[c].pc \in {"pathExists", "stat", "glob", "return"}
                  THEN [seen[c] EXCEPT !.fsStable = FALSE]
                  ELSE seen[c]]
    /\ UNCHANGED <<platform, ca, heap, _systemCertificates, frame, lastSys, counters,
                   sysFirst, caInitial, history>>

\* ---------------------------------------------------------- specification
\* No call is suspended inside getCertificatesFromPaths.
Quiescent == \A c \in Calls : frame[c].pc \in {"idle", "done", "failed"}

\* The settings and filesystems a sequence of calls is run with.
CallConfigs == {Undefined, Configured(<<PA>>), Configured(<<PA, PD>>)}
CallFs == {FsTree, FsLocked, FsEmpty}

\* Calls made one after the other, the setting and the filesystem changing
\* between them: call 1 is started again once it is over.
Next ==
    \/ \E cfg \in CallConfigs, out \in ReaderOutcomes :
          counters.calls < MaxCalls /\ Begin(1, cfg, out)
    \/ PathExistsStep(1)
    \/ StatStep(1)
    \/ GlobStep(1)
    \/ Finish(1)
    \/ \E f \in CallFs : Quiescent /\ ChangeFilesystem(f)

InitCalls == Init /\ fs \in CallFs

Spec == InitCalls /\ [][Next]_vars

\* One call over every candidate list of up to MaxPaths candidates, the
\* filesystem changing under it while it is suspended.
Candidates == {PRel, PA, PD, PDrive, PDriveRel}
PathConfigs == {Undefined} \cup {Configured(l) : l \in SeqsUpTo(Candidates, MaxPaths)}

NextPaths ==
    \/ \E cfg \in PathConfigs :
          counters.calls = 0 /\ Begin(1, cfg, Outcome(FALSE, "array", <<Os1>>))
    \/ PathExistsStep(1)
    \/ StatStep(1)
    \/ GlobStep(1)
    \/ Finish(1)
    \/ \E f \in FsStates : ChangeFilesystem(f)

InitPaths == Init /\ ca = Absent

SpecPaths == InitPaths /\ [][NextPaths]_vars

\* Calls that overlap: a call may begin while the other is suspended on a
\* filesystem operation, and the suspended calls resume in any order.  A
\* call runs without interruption from one suspension to the next.
NextOverlap ==
    \/ \E c \in Calls, cfg \in CallConfigs, out \in ReaderOutcomes :
          counters.calls < MaxCalls /\ Begin(c, cfg, out)
    \/ \E c \in Calls : PathExistsStep(c)
    \/ \E c \in Calls : StatStep(c)
    \/ \E c \in Calls : GlobStep(c)
    \/ \E c \in Calls : Finish(c)

\* The overlapping calls are studied over one unchanging directory tree.
InitOverlap == Init /\ fs = FsTree

SpecOverlap == InitOverlap /\ [][NextOverlap]_vars

\* ------------------------------------------------------------- properties
\* getCertificatesFromSystem has returned an array to call c.
GotSystemCerts(c) == frame[c].pc \in {"pathExists", "stat", "glob", "return", "done"}

\* getCertificatesFromPaths has returned to call c.
PathsReturned(c) == frame[c].pc \in {"return", "done"}

Count(seq, x) == Cardinality({k \in 1..Len(seq) : seq[k] = x})

\* C1: every returned sequence is exactly the system certificates (what
\* the system extraction produced) followed by the path-derived
\* certificates of that very call, with nothing from an earlier call.
Cex_C1 ==
    \A c \in Calls :
        frame[c].pc = "done" => seen[c].returned = sysFirst.val \o frame[c].certs

\* C2: whenever getCertificatesFromSystem has completed, by returning or by
\* raising the reader's error, https.globalAgent.options.ca has the value
\* (and, for an array, the entries) it had just before that call.
Thm_C2 == lastSys.none \/ lastSys.val.after = lastSys.val.before

\* An extraction in which the reader put something else into the option,
\* after an earlier one that raised an error.
Wit_C2 ==
    /\ ~lastSys.none
    /\ counters.throws > 0
    /\ lastSys.val.invoked /\ ~lastSys.val.threw
    /\ lastSys.val.readBack # lastSys.val.before

\* C3: after any sequence of calls the content of the shared trust
\* configuration is what it was before the first call.
Cex_C3 == Content(ca, heap) = caInitial

\* C4: a call in which the platform reader raised an error goes on to the
\* path-based extraction and to a result; the error does not end it.
Cex_C4 == \A c \in Calls : seen[c].readerThrew => GotSystemCerts(c)

\* C5: once the platform reader has raised an error, no later step invokes
\* the reader again.
Cex_C5 == [][counters.throws > 0 => counters.reader' = counters.reader]_vars

\* C6: once a system extraction has completed without error, no later step
\* invokes the platform reader, reads or assigns the option
\* https.globalAgent.options.ca (lines 83, 94, 95), or completes another
\* extraction: the OS is read at most once.
Thm_C6 ==
    [][counters.okReads > 0 =>
          /\ ca' = ca
          /\ counters.reader' = counters.reader
          /\ counters.caReads' = counters.caReads
          /\ counters.caWrites' = counters.caWrites
          /\ counters.okReads' = counters.okReads]_vars

\* A later call that was served from the cache although the extraction had
\* produced the empty sequence.
Wit_C6 ==
    /\ counters.calls >= 2
    /\ counters.okReads = 1
    /\ ~sysFirst.none /\ sysFirst.val = <<>>
    /\ seen[1].cacheHit
    /\ frame[1].pc = "done"

\* C7: every call of getCertificatesFromSystem returns a sequence equal to
\* the one its first completed call returned.
Cex_C7 == \A c \in Calls : GotSystemCerts(c) => seen[c].sysAtCall = sysFirst.val

\* C8: two completed calls that started from equal cached system
\* certificates, with the same setting and the same (unchanging)
\* filesystem, returned equal sequences.
SameInputs(a, b) == a.sys = b.sys /\ a.paths = b.paths /\ a.fs = b.fs

NotAbsoluteOn(plat) ==
    IF plat = "win" THEN {PRel, PDriveRel} ELSE {PRel, PDrive, PDriveRel}

Thm_C9 ==
    \A c \in Calls :
        LET f == frame[c]
            o == seen[c]
            rel == NotAbsoluteOn(platform)
        IN /\ \A k \in 1..Len(o.ops) : o.ops[k][2] \notin rel
           /\ \A k \in 1..Len(f.certs) : \A p \in rel : ~IsPrefix(p, f.certs[k])
           /\ \A p \in rel : Count(o.warnings, p) <= Count(f.certificatePaths, p)
           /\ PathsReturned(c) =>
                 /\ \A p \in rel : Count(o.warnings, p) = Count(f.certificatePaths, p)
                 /\ \A k \in 1..Len(f.certificatePaths) :
                       f.certificatePaths[k] \notin rel =>
                          \E m \in 1..Len(o.ops) :
                              o.ops[m] = <<"pathExists", f.certificatePaths[k]>>

\* The list ["rel/x", "/a"] with /a a file: one warning, and /a returned.
Wit_C9 ==
    /\ frame[1].pc = "done"
    /\ frame[1].certificatePaths = <<PRel, PA>>
    /\ seen[1].warnings = <<PRel>>
    /\ frame[1].certs = <<PA>>

\* C10: with the filesystem unchanged during the call, the result of
\* getCertificatesFromPaths is the concatenation, in candidate order, of:
\* the path itself for a regular file; the regular files nested under it,
\* in enumeration order, for a directory; nothing for any other candidate.
\* No entry of it is a directory.
RECURSIVE FilesUnder(_, _, _)
FilesUnder(f, dir, k) ==
    IF k > Len(f) THEN <<>>
    ELSE (IF f[k].kind = "file" /\ Len(f[k].path) > Len(dir) /\ IsPrefix(dir, f[k].path)
          THEN <<f[k].path>> ELSE <<>>) \o FilesUnder(f, dir, k + 1)

KindIn(f, p) ==
    LET at == {k \in 1..Len(f) : f[k].path = p}
    IN IF at = {} THEN "missing" ELSE f[CHOOSE k \in at : TRUE].kind

ExpectedContribution(f, p, plat) ==
    IF p \in NotAbsoluteOn(plat) THEN <<>>
    ELSE IF KindIn(f, p) = "file" THEN <<p>>
    ELSE IF KindIn(f, p) = "dir" THEN FilesUnder(f, p, 1)
    ELSE <<>>

RECURSIVE ExpectedCerts(_, _, _, _)
ExpectedCerts(f, paths, k, plat) ==
    IF k > Len(paths) THEN <<>>
    ELSE ExpectedContribution(f, paths[k], plat) \o ExpectedCerts(f, paths, k + 1, plat)

Thm_C10 ==
    \A c \in Calls :
        (PathsReturned(c) /\ seen[c].fsStable) =>
            /\ frame[c].certs =
                  ExpectedCerts(seen[c].fsAtCall, frame[c].certificatePaths, 1, platform)
            /\ \A k \in 1..Len(frame[c].certs) :
                  KindIn(seen[c].fsAtCall, frame[c].certs[k]) = "file"

\* A file, then a directory holding a file and a sub-directory with a file.
Wit_C10 ==
    /\ frame[1].pc = "done"
    /\ seen[1].fsStable
    /\ frame[1].certificatePaths = <<PA, PD>>
    /\ frame[1].certs = <<PA, PDF1, PDSF2>>

\* C11: a step in which the existence check of an absolute candidate
\* answers no (the path is missing, or the check itself fails), or in which
\* its stat fails, adds no entry, does not end the call with an error, and
\* hands over to the next absolute candidate of the list, or to the return
\* of the entries collected, when there is none.
LookupFails(c) ==
    /\ frame[c].pc \in {"pathExists", "stat"}
    /\ KindIn(fs, frame[c].certificatePaths[frame[c].i]) \in {"missing", "noaccess"}

NextCandidate(paths, i, plat) ==
    LET later == {k \in (i + 1)..Len(paths) : paths[k] \notin NotAbsoluteOn(plat)}
    IN IF later = {} THEN Len(paths) + 1
       ELSE CHOOSE k \in later : \A m \in later : k <= m

Thm_C11 ==
    [][\A c \in Calls :
          (LookupFails(c) /\ frame'[c] # frame[c]) =>
             LET next == NextCandidate(frame[c].certificatePaths, frame[c].i, platform)
             IN /\ frame'[c].certs = frame[c].certs
                /\ frame'[c].i = next
                /\ frame'[c].pc =
                      IF next > Len(frame[c].certificatePaths) THEN "return" ELSE "pathExists"]_vars

\* The list ["/a", "/d"]: /a is removed between its existence check and its
\* stat, which fails; the files under /d are returned all the same.
Wit_C11 ==
    /\ frame[1].pc = "done"
    /\ frame[1].certificatePaths = <<PA, PD>>
    /\ \E m \in 1..Len(seen[1].ops) : seen[1].ops[m] = <<"stat", PA>>
    /\ seen[1].notes = <<PA>>
    /\ frame[1].certs = <<PDSF2, PDF1>>

\* C12: a rejected enumeration of one directory does not end the call: no
\* call is ever left failed with the enumeration as its last filesystem
\* operation.
Cex_C12 ==
    \A c \in Calls :
        (Len(seen[c].ops) > 0 /\ seen[c].ops[Len(seen[c].ops)][1] = "glob")
            => frame[c].pc # "failed"

\* C13: the list handed to getCertificatesFromPaths is the configured list
\* whenever the setting has a value, the empty list included, on every
\* host; with no value it is the four fixed directories on a Linux host
\* and the empty list on any other host.
FourLinuxDirectories ==
    << <<"/", "etc", "ssl", "certs", "ca-certificates">>,
       <<"/", "etc", "openssl", "certs">>,
       <<"/", "etc", "pki", "tls", "certs">>,
       <<"/", "usr", "local", "share", "certs">> >>

Thm_C13 ==
    \A c \in Calls :
        GotSystemCerts(c) =>
            frame[c].certificatePaths =
                IF seen[c].configured.defined THEN seen[c].configured.list
                ELSE IF platform = "linux" THEN FourLinuxDirectories
                ELSE <<>>

\* No setting on a Linux host: the four directories were all looked up.
Wit_C13 ==
    /\ platform = "linux"
    /\ frame[1].pc = "done"
    /\ ~seen[1].configured.defined
    /\ Len(frame[1].certificatePaths) = 4
    /\ \A k \in 1..4 :
          \E m \in 1..Len(seen[1].ops) :
              seen[1].ops[m] = <<"pathExists", FourLinuxDirectories[k]>>

\* C14: on every completed call the reported fromSystemCount is the number
\* of certificates the system extraction obtained and fromPathsCount the
\* number of path-derived certificates of that call.
DigitValue(d) == CHOOSE v \in 0..9 : Digits[v + 1] = d

RECURSIVE ParseDecimal(_)
ParseDecimal(str) ==
    IF Len(str) = 1 THEN DigitValue(str[1])
    ELSE 10 * ParseDecimal(SubSeq(str, 1, Len(str) - 1)) + DigitValue(str[Len(str)])

Cex_C14 ==
    \A c \in Calls :
        frame[c].pc = "done" =>
            /\ ParseDecimal(frame[c].fromSystemCount) = Len(sysFirst.val)
            /\ ParseDecimal(frame[c].fromPathsCount) = Len(frame[c].certs)

\* C15: on a Linux host the system extraction yields no certificate: what
\* the first completed getCertificatesFromSystem returns is the empty
\* sequence, whatever the shared option held before.
Cex_C15 == (platform = "linux" /\ ~sysFirst.none) => sysFirst.val = <<>>

\* The value the option refers to, without the entries of an array.
Referent(val) == [kind |-> val.kind, v |-> val.v, id |-> val.id]

Cex_C17 ==
    \A c \in Calls :
        frame[c].pc = "done" => heap[frame[c].result] = seen[c].returned

\* The last extraction read the option back and returned normally.
ReadBack == ~lastSys.none /\ lastSys.val.miss /\ ~lastSys.val.threw

\* C18 as stated: the value read back becomes the system-certificate set:
\* absent gives the empty sequence, any single entry a one-element
\* sequence holding it, and an array is used as it is (the same array).
Cex_C18 ==
    ReadBack =>
        LET rb == lastSys.val.readBack
            ret == lastSys.val.ret
        IN /\ rb.kind = "absent" => ret = <<>>
           /\ rb.kind = "single" => ret = <<rb.v>>
           /\ rb.kind = "array" => ret = rb.items /\ _systemCertificates = rb.id

\* C18, amended: absent and the empty string give the empty sequence, any
\* other single entry a one-element sequence holding it, and an array is
\* used as it is; in each case something is cached.
Thm_C18 ==
    ReadBack =>
        LET rb == lastSys.val.readBack
            ret == lastSys.val.ret
        IN /\ rb.kind = "absent" => ret = <<>>
           /\ (rb.kind = "single" /\ rb.v = <<>>) => ret = <<>>
           /\ (rb.kind = "single" /\ rb.v # <<>>) => ret = <<rb.v>>
           /\ rb.kind = "array" => ret = rb.items /\ _systemCertificates = rb.id
           /\ _systemCertificates # NoCache

\* The reader left the empty string in the option, and the extraction
\* returned the empty sequence.
Wit_C18 ==
    /\ ReadBack /\ lastSys.val.invoked
    /\ lastSys.val.readBack.kind = "single" /\ lastSys.val.readBack.v = <<>>
    /\ lastSys.val.ret = <<>>

====
